---- MODULE Spec2Model ----
(***************************************************************************)
(* The damage-scoring servers of SeeThearc/sih4c:                          *)
(*   model/chainlink_ml_server.py  (hash, image and "simple" scoring)      *)
(*   model/ml_api_server.py        (scoring of an image fetched by URL)    *)
(*                                                                         *)
(* Python floats are IEEE-754 binary64.  TLC's integers are 32 bits wide,  *)
(* so a float is modelled exactly, as sign * mantissa * 2^exponent with    *)
(* the mantissa an unbounded natural held as a sequence of limbs, and      *)
(* every float operation of the source is the exact operation followed by  *)
(* round-to-nearest-even to 53 bits: what CPython does on every platform   *)
(* it supports.  Subnormals, infinities and -0.0 are outside the ranges    *)
(* this model draws its inputs from; NaN is a separate tagged value.       *)
(***************************************************************************)
EXTENDS Integers, Sequences, FiniteSets, TLC

(***************************************************************************)
(* Unbounded naturals: little-endian sequences of limbs in base 2^14,      *)
(* without leading zero limbs (zero is the empty sequence).                *)
(***************************************************************************)
LimbBits == 7 + 7
LimbBase == 2 ^ LimbBits

RECURSIVE BNorm(_)
BNorm(x) ==
    IF x = <<>> THEN <<>>
    ELSE IF x[Len(x)] = 0 THEN BNorm(SubSeq(x, 1, Len(x) - 1))
    ELSE x

RECURSIVE BFromInt(_)
BFromInt(n) ==
    IF n = 0 THEN <<>>
    ELSE <<n % LimbBase>> \o BFromInt(n \div LimbBase)

RECURSIVE BToInt(_)
BToInt(x) ==
    IF x = <<>> THEN 0
    ELSE x[1] + LimbBase * BToInt(Tail(x))

BLimb(x, i) == IF i <= Len(x) THEN x[i] ELSE 0

RECURSIVE BAddC(_, _, _)
BAddC(x, y, c) ==
    IF x = <<>> /\ y = <<>> THEN (IF c = 0 THEN <<>> ELSE <<c>>)
    ELSE LET s == BLimb(x, 1) + BLimb(y, 1) + c
         IN  <<s % LimbBase>> \o
             BAddC(IF x = <<>> THEN <<>> ELSE Tail(x),
                   IF y = <<>> THEN <<>> ELSE Tail(y),
                   s \div LimbBase)

BAdd(x, y) == BNorm(BAddC(x, y, 0))

\* x - y for x >= y
RECURSIVE BSubB(_, _, _)
BSubB(x, y, b) ==
    IF x = <<>> THEN <<>>
    ELSE LET d == x[1] - BLimb(y, 1) - b
         IN  <<IF d < 0 THEN d + LimbBase ELSE d>> \o
             BSubB(Tail(x), IF y = <<>> THEN <<>> ELSE Tail(y),
                   IF d < 0 THEN 1 ELSE 0)

BSub(x, y) == BNorm(BSubB(x, y, 0))

\* -1, 0, 1 as x < y, x = y, x > y
RECURSIVE BCmpAt(_, _, _)
BCmpAt(x, y, i) ==
    IF i = 0 THEN 0
    ELSE IF x[i] < y[i] THEN -1
    ELSE IF x[i] > y[i] THEN 1
    ELSE BCmpAt(x, y, i - 1)

BCmp(x, y) ==
    IF Len(x) < Len(y) THEN -1
    ELSE IF Len(x) > Len(y) THEN 1
    ELSE BCmpAt(x, y, Len(x))

\* x * k for a small k (k < 2^16)
RECURSIVE BMulSmallC(_, _, _)
BMulSmallC(x, k, c) ==
    IF x = <<>> THEN BFromInt(c)
    ELSE LET p == x[1] * k + c
         IN  <<p % LimbBase>> \o BMulSmallC(Tail(x), k, p \div LimbBase)

BMulSmall(x, k) == BNorm(BMulSmallC(x, k, 0))

RECURSIVE BMul(_, _)
BMul(x, y) ==
    IF y = <<>> \/ x = <<>> THEN <<>>
    ELSE BAdd(BMulSmall(x, y[1]), <<0>> \o BMul(x, Tail(y)))

\* <<quotient, remainder>> of x by a small k (0 < k < 2^16)
RECURSIVE BDivSmallAt(_, _, _, _)
BDivSmallAt(x, k, i, r) ==
    IF i = 0 THEN <<<<>>, r>>
    ELSE LET cur  == r * LimbBase + x[i]
             rest == BDivSmallAt(x, k, i - 1, cur % k)
         IN  <<rest[1] \o <<cur \div k>>, rest[2]>>

NormQuotient(qr) == <<BNorm(qr[1]), qr[2]>>

BDivSmall(x, k) == NormQuotient(BDivSmallAt(x, k, Len(x), 0))

Zeros(n) == [i \in 1..n |-> 0]

\* x * 2^n
BShl(x, n) ==
    IF x = <<>> THEN <<>>
    ELSE Zeros(n \div LimbBits) \o BMulSmall(x, 2 ^ (n % LimbBits))

\* floor(x / 2^n)
BShr(x, n) ==
    LET q == n \div LimbBits
    IN  IF q >= Len(x) THEN <<>>
        ELSE BDivSmall(SubSeq(x, q + 1, Len(x)), 2 ^ (n % LimbBits))[1]

\* x mod 2^n
BLow(x, n) ==
    LET q == n \div LimbBits
    IN  IF q >= Len(x) THEN x
        ELSE BNorm(SubSeq(x, 1, q) \o <<x[q + 1] % (2 ^ (n % LimbBits))>>)

RECURSIVE IntBitLen(_)
IntBitLen(n) == IF n = 0 THEN 0 ELSE 1 + IntBitLen(n \div 2)

BBitLen(x) ==
    IF x = <<>> THEN 0
    ELSE LimbBits * (Len(x) - 1) + IntBitLen(x[Len(x)])

BIsOdd(x) == x # <<>> /\ x[1] % 2 = 1

\* q + 1 when rem > half, or rem = half and q is odd; otherwise q
BRoundCut(q, rem, half, c) ==
    IF c = 1 \/ (c = 0 /\ BIsOdd(q)) THEN BAdd(q, <<1>>) ELSE q

BRoundParts(q, rem, half) == BRoundCut(q, rem, half, BCmp(rem, half))

\* the natural nearest to x / 2^n, ties to even (x * 2^-n for n <= 0)
BRoundShr(x, n) ==
    IF n <= 0 THEN BShl(x, -n)
    ELSE BRoundParts(BShr(x, n), BLow(x, n), BShl(<<1>>, n - 1))

Signed(s, mag) == IF s = 1 THEN -mag ELSE mag
Abs(n) == IF n < 0 THEN -n ELSE n
SignOf(n) == IF n < 0 THEN 1 ELSE 0
Min(a, b) == IF a < b THEN a ELSE b
Max(a, b) == IF a > b THEN a ELSE b

(***************************************************************************)
(* binary64.  A finite float is [s, m, e]: (-1)^s * m * 2^e with m = 0     *)
(* (then s = 0, e = 0) or 2^52 <= m < 2^53, so equal floats are equal      *)
(* records.                                                                *)
(***************************************************************************)
MantBits == 52 + 1

FZero == [s |-> 0, m |-> <<>>, e |-> 0]
NaN == [nan |-> TRUE]
IsNaN(x) == x = NaN

\* a rounded mantissa q of 53 or (after a carry) 54 bits, as a float
FPack(s, q, e) ==
    IF BBitLen(q) > MantBits THEN [s |-> s, m |-> BShr(q, 1), e |-> e + 1]
    ELSE [s |-> s, m |-> q, e |-> e]

FRoundLen(s, n, e, len) ==
    IF n = <<>> THEN FZero
    ELSE IF len <= MantBits
         THEN [s |-> s, m |-> BShl(n, MantBits - len), e |-> e - (MantBits - len)]
    ELSE FPack(s, BRoundShr(n, len - MantBits), e + (len - MantBits))

\* round-to-nearest-even of (-1)^s * n * 2^e
FRound(s, n, e) == FRoundLen(s, n, e, BBitLen(n))

\* float(n) for an integer n
FInt(n) == FRound(SignOf(n), BFromInt(Abs(n)), 0)

FDivParts(s, qr) ==
    FRound(s, BAdd(BShl(qr[1], 1), IF qr[2] = 0 THEN <<>> ELSE <<1>>), -(5 * LimbBits) - 1)

\* n / d for integers n and d > 0 (Python's true division, and the value of
\* a decimal literal n/d): correctly rounded.  The quotient is taken to 70
\* fraction bits, the remainder kept as a sticky bit.
FDivInt(n, d) == FDivParts(SignOf(n), BDivSmall(BShl(BFromInt(Abs(n)), 5 * LimbBits), d))

FNeg(x) == IF x.m = <<>> THEN x ELSE [x EXCEPT !.s = 1 - x.s]

\* -1, 0, 1 as |x| < |y|, |x| = |y|, |x| > |y|
FCmpAbs(x, y) ==
    IF x.m = <<>> /\ y.m = <<>> THEN 0
    ELSE IF x.m = <<>> THEN -1
    ELSE IF y.m = <<>> THEN 1
    ELSE IF x.e < y.e THEN -1
    ELSE IF x.e > y.e THEN 1
    ELSE BCmp(x.m, y.m)

FCmp(x, y) ==
    IF x.s = 0 /\ y.s = 0 THEN FCmpAbs(x, y)
    ELSE IF x.s = 1 /\ y.s = 1 THEN FCmpAbs(y, x)
    ELSE IF x.s = 1 THEN -1
    ELSE 1

\* x > y, x >= y, x < y on floats: false when either is NaN
FGt(x, y) == ~IsNaN(x) /\ ~IsNaN(y) /\ FCmp(x, y) = 1
FGe(x, y) == ~IsNaN(x) /\ ~IsNaN(y) /\ FCmp(x, y) >= 0
FLt(x, y) == FGt(y, x)
FLe(x, y) == FGe(y, x)

FMul(x, y) ==
    IF IsNaN(x) \/ IsNaN(y) THEN NaN
    ELSE FRound((x.s + y.s) % 2, BMul(x.m, y.m), x.e + y.e)

\* x + y for nonzero finite x, y with mantissas nx, ny aligned to exponent e;
\* c compares nx with ny
FAddAligned(x, y, nx, ny, e, c) ==
    FRound(IF x.s = y.s \/ c = 1 THEN x.s ELSE y.s,
           IF x.s = y.s THEN BAdd(nx, ny)
           ELSE IF c = 1 THEN BSub(nx, ny)
           ELSE BSub(ny, nx),
           e)

FAddAt(x, y, e) ==
    FAddAligned(x, y, BShl(x.m, x.e - e), BShl(y.m, y.e - e), e,
                BCmp(BShl(x.m, x.e - e), BShl(y.m, y.e - e)))

FAdd(x, y) ==
    IF IsNaN(x) \/ IsNaN(y) THEN NaN
    ELSE IF x.m = <<>> THEN y
    ELSE IF y.m = <<>> THEN x
    ELSE FAddAt(x, y, Min(x.e, y.e))

FSub(x, y) == IF IsNaN(y) THEN NaN ELSE FAdd(x, FNeg(y))

\* int(x): truncation toward zero (x finite)
FTrunc(x) ==
    Signed(x.s, BToInt(IF x.e >= 0 THEN BShl(x.m, x.e) ELSE BShr(x.m, -x.e)))

\* max(a, b) of Python: b when b > a, otherwise a
FMax(a, b) == IF FGt(b, a) THEN b ELSE a

\* the integer nearest to x * 100, ties to even, x finite and exact
HundredthsOf(x) == Signed(x.s, BToInt(BRoundShr(BMulSmall(x.m, 100), -x.e)))

\* round(x, 2): the float nearest to x correctly rounded to two decimals
FRound2(x) == IF IsNaN(x) THEN NaN ELSE FDivInt(HundredthsOf(x), 100)

(***************************************************************************)
(* Python's int(text, 16) on a string held as a sequence of one-character  *)
(* strings: surrounding whitespace, a sign, a 0x prefix and single         *)
(* underscores between digits are accepted; anything else is a ValueError. *)
(* Only the value modulo 100 is kept (the source takes "% 100" at once),   *)
(* reduced at every digit so that eight digits fit TLC's integers.         *)
(***************************************************************************)
HexLower == <<"0", "1", "2", "3", "4", "5", "6", "7", "8", "9", "a", "b", "c", "d", "e", "f">>
HexUpper == <<"0", "1", "2", "3", "4", "5", "6", "7", "8", "9", "A", "B", "C", "D", "E", "F">>

IsHexDigit(c) == \E i \in 1..16 : HexLower[i] = c \/ HexUpper[i] = c
DigitValue(c) == (CHOOSE i \in 1..16 : HexLower[i] = c \/ HexUpper[i] = c) - 1
IsSpace(c) == c \in {" ", "\t", "\n"}

RECURSIVE LStrip(_)
LStrip(s) == IF s # <<>> /\ IsSpace(Head(s)) THEN LStrip(Tail(s)) ELSE s

RECURSIVE RStrip(_)
RStrip(s) ==
    IF s # <<>> /\ IsSpace(s[Len(s)]) THEN RStrip(SubSeq(s, 1, Len(s) - 1)) ELSE s

ValueError == 0 - 1

\* the digits of s, modulo 100; afterDigit says the previous character was a digit
RECURSIVE DigitsMod100(_, _, _)
DigitsMod100(s, acc, afterDigit) ==
    IF s = <<>> THEN (IF afterDigit THEN acc ELSE ValueError)
    ELSE IF IsHexDigit(Head(s))
         THEN DigitsMod100(Tail(s), (acc * 16 + DigitValue(Head(s))) % 100, TRUE)
    ELSE IF Head(s) = "_" /\ afterDigit THEN DigitsMod100(Tail(s), acc, FALSE)
    ELSE ValueError

\* the digits after an optional 0x prefix (and one underscore after it)
Unprefixed(u, pre) ==
    IF ~pre THEN u
    ELSE IF Len(u) > 2 /\ u[3] = "_" THEN SubSeq(u, 4, Len(u))
    ELSE SubSeq(u, 3, Len(u))

HasPrefix(u) == Len(u) >= 2 /\ u[1] = "0" /\ u[2] \in {"x", "X"}

Negated(neg, m) ==
    IF m = ValueError THEN ValueError
    ELSE IF neg THEN (100 - m) % 100
    ELSE m

ParseStripped(s) ==
    Negated(s # <<>> /\ Head(s) = "-",
            DigitsMod100(Unprefixed(IF s # <<>> /\ Head(s) \in {"+", "-"} THEN Tail(s) ELSE s,
                                    HasPrefix(IF s # <<>> /\ Head(s) \in {"+", "-"}
                                              THEN Tail(s) ELSE s)),
                         0, FALSE))

\* int(text, 16) % 100, or ValueError
ParseHexMod100(text) == ParseStripped(RStrip(LStrip(text)))

\* image_hash[:10]
Slice10(image_hash) ==
    SubSeq(image_hash, 1, IF Len(image_hash) < 10 THEN Len(image_hash) ELSE 10)

\* image_hash[:8]
Slice8(image_hash) ==
    SubSeq(image_hash, 1, IF Len(image_hash) < 8 THEN Len(image_hash) ELSE 8)

(***************************************************************************)
(* State.  Each server is one process holding one ChainlinkMLAPI object    *)
(* (ml_api); its request handlers run on the threads of Flask's server,    *)
(* so a handler is a sequence of steps and a step is what one thread does  *)
(* between two accesses to state the threads share.                        *)
(***************************************************************************)
VARIABLES
    request_count,    \* ml_api.request_count of each server
    np_random_seed,   \* the seed last given to NumPy's global generator (Unseeded: none)
    th,               \* per thread: the call it is in, its locals, its outcome
    calls,            \* history: the scorer calls begun on each server
    first_score,      \* history: per hash, the score of the first call that returned
    http              \* per thread: the HTTP request it handles, or its last response

vars == <<request_count, np_random_seed, th, calls, first_score, http>>

\* what the endpoints leave alone when they answer without calling the scorer
scorer_vars == <<request_count, np_random_seed, th, calls, first_score>>

HashServer == "chainlink_ml_server"
UrlServer == "ml_api_server"
Servers == {HashServer, UrlServer}
Unseeded == 0 - 1

(***************************************************************************)
(* The scoring arithmetic.                                                 *)
(***************************************************************************)
\* the float literals of the source
One == FInt(1)
Hundred == FInt(100)
Lit_0_05 == FDivInt(5, 100)
Lit_0_3 == FDivInt(3, 10)
Lit_0_65 == FDivInt(65, 100)
Lit_0_85 == FDivInt(85, 100)
Lit_0_25 == FDivInt(25, 100)
Lit_0_15 == FDivInt(15, 100)

\* chainlink_ml_server.predict_damage_from_hash
HashSeed(image_hash) == ParseHexMod100(Slice8(image_hash))

\* the tier formulas with the proportional term drawn from the global generator
HashFreshProbFromGenerator(seed) ==
    LET g == FDivInt(np_random_seed, 100)
    IN  IF seed < 20 THEN FAdd(Lit_0_05, FMul(g, Lit_0_25))
        ELSE IF seed < 40 THEN FAdd(Lit_0_3, FMul(g, Lit_0_25))
        ELSE IF seed < 80 THEN FAdd(Lit_0_65, FMul(g, Lit_0_25))
        ELSE FAdd(Lit_0_85, FMul(g, Lit_0_15))

\* the tiers with the second one starting at 0.45: rotten verdicts with
\* fresh_prob of 0.5 and more
HashFreshProbHighSecondTier(seed) ==
    IF seed < 20 THEN FAdd(Lit_0_05, FMul(FDivInt(seed, 100), Lit_0_25))
    ELSE IF seed < 40 THEN FAdd(FDivInt(45, 100), FMul(FDivInt(seed, 100), Lit_0_25))
    ELSE IF seed < 80 THEN FAdd(Lit_0_65, FMul(FDivInt(seed, 100), Lit_0_25))
    ELSE FAdd(Lit_0_85, FMul(FDivInt(seed, 100), Lit_0_15))

HashFreshProb(seed) ==
    IF seed < 20 THEN FAdd(Lit_0_05, FMul(FDivInt(seed, 100), Lit_0_25))
    ELSE IF seed < 40 THEN FAdd(Lit_0_3, FMul(FDivInt(seed, 100), Lit_0_25))
    ELSE IF seed < 80 THEN FAdd(Lit_0_65, FMul(FDivInt(seed, 100), Lit_0_25))
    ELSE FAdd(Lit_0_85, FMul(FDivInt(seed, 100), Lit_0_15))

\* the tiers with the verdict changing one seed late
HashPredictionOffByOne(seed) == IF seed <= 40 THEN "rotten" ELSE "fresh"

HashPrediction(seed) == IF seed < 40 THEN "rotten" ELSE "fresh"

\* Python's round(x) for a finite x: the nearest integer, ties to even
FRoundInt(x) == Signed(x.s, BToInt(BRoundShr(x.m, -x.e)))

\* the damage score rounded to the nearest integer instead of truncated
HashDamageScoreRounded(fresh_prob) == FRoundInt(FMul(FSub(One, fresh_prob), Hundred))

\* int((1 - fresh_prob) * 100)
HashDamageScore(fresh_prob) == FTrunc(FMul(FSub(One, fresh_prob), Hundred))

\* max(fresh_prob, 1 - fresh_prob) * 100
HashConfidence(fresh_prob) == FMul(FMax(fresh_prob, FSub(One, fresh_prob)), Hundred)

\* chainlink_ml_server.predict_damage_from_data, lines 195-206
DataPredictionTieFresh(fresh_prob, rotten_prob) ==
    IF FGe(fresh_prob, rotten_prob) THEN "fresh" ELSE "rotten"

DataPrediction(fresh_prob, rotten_prob) ==
    IF FGt(fresh_prob, rotten_prob) THEN "fresh" ELSE "rotten"

\* the confidence of the class that lost
DataConfidenceOfLoser(fresh_prob, rotten_prob) ==
    IF FGt(fresh_prob, rotten_prob) THEN FMul(rotten_prob, Hundred)
    ELSE FMul(fresh_prob, Hundred)

DataConfidence(fresh_prob, rotten_prob) ==
    IF FGt(fresh_prob, rotten_prob) THEN FMul(fresh_prob, Hundred)
    ELSE FMul(rotten_prob, Hundred)

\* the float that int() is applied to
DataRawScore(fresh_prob, rotten_prob) ==
    IF FGt(fresh_prob, rotten_prob) THEN FMul(FSub(One, fresh_prob), Hundred)
    ELSE FMul(rotten_prob, Hundred)

\* the bounds check left out
ClampNothing(damage_score) == damage_score

\* the upper bound one short
ClampBelowHundred(damage_score) == Max(0, Min(99, damage_score))

\* max(0, min(100, damage_score))
Clamp(damage_score) == Max(0, Min(100, damage_score))

\* ml_api_server.predict_damage, lines 83-94
UrlPrediction(fresh_prob, rotten_prob) ==
    IF FGt(fresh_prob, rotten_prob) THEN "fresh" ELSE "rotten"

UrlConfidence(fresh_prob, rotten_prob) ==
    IF FGt(fresh_prob, rotten_prob) THEN fresh_prob ELSE rotten_prob

UrlRawScore(fresh_prob, rotten_prob) ==
    IF FGt(fresh_prob, rotten_prob) THEN FMul(FSub(One, fresh_prob), Hundred)
    ELSE FMul(rotten_prob, Hundred)

UrlClamp(damage_score) == Max(0, Min(100, damage_score))

\* FallbackModel.predict with the dark tier reaching 60% fresh
FallbackFreshProbWideDarkTier(image_mean, jitter) ==
    IF FLt(image_mean, Lit_0_3) THEN FAdd(FDivInt(2, 10), FMul(jitter, FDivInt(4, 10)))
    ELSE IF FGt(image_mean, FDivInt(7, 10))
         THEN FAdd(FDivInt(7, 10), FMul(jitter, Lit_0_3))
    ELSE FAdd(FDivInt(4, 10), FMul(jitter, FDivInt(4, 10)))

\* chainlink_ml_server.FallbackModel.predict, lines 92-97: fresh_prob
FallbackFreshProb(image_mean, jitter) ==
    IF FLt(image_mean, Lit_0_3) THEN FAdd(FDivInt(2, 10), FMul(jitter, Lit_0_3))
    ELSE IF FGt(image_mean, FDivInt(7, 10))
         THEN FAdd(FDivInt(7, 10), FMul(jitter, Lit_0_3))
    ELSE FAdd(FDivInt(4, 10), FMul(jitter, FDivInt(4, 10)))

\* lines 99-100: np.array([[fresh_prob, rotten_prob]])
FallbackOutput(fresh_prob) ==
    [kind |-> "pair", fresh |-> fresh_prob, rotten |-> FSub(One, fresh_prob)]

\* chainlink_ml_server.predict_simple, lines 414-422
SimpleSeed(now) == now % 100

\* the tiers with seed 25 in the first one
SimpleDamageScoreTierShifted(seed) ==
    IF seed <= 25 THEN 65 + (seed % 25)
    ELSE IF seed < 75 THEN 20 + (seed % 30)
    ELSE seed % 20

SimpleDamageScore(seed) ==
    IF seed < 25 THEN 65 + (seed % 25)
    ELSE IF seed < 75 THEN 20 + (seed % 30)
    ELSE seed % 20


(***************************************************************************)
(* Inputs.  A hash is a sequence of characters.  The model's output is a   *)
(* pair of floats (a two-class model) or one float (a single-output one).  *)
(***************************************************************************)
NumThreads == 2
MaxCalls == 3
ProbGridMax == 30
ClockSpan == 119
JitterBits == 3

Threads == 1..NumThreads
ClockBase == 1762 * 1000000

Str8(a, b) == <<"0", "0", "0", "0", "0", "0", a, b>>

\* 00000000 .. 0000006f: every seed 0..99 (and 0..11 twice)
SeedHashes == {Str8(HexLower[i], HexLower[j]) : i \in 1..7, j \in 1..16}

OtherHashes ==
    { <<>>,
      <<"x", "y">>,
      <<"a", "b">>,
      <<"a", "b", "c", "1", "2", "3", "4">>,
      <<"f", "f", "f", "f", "f", "f", "f", "f">>,
      <<"D", "E", "A", "D", "B", "E", "E", "F">>,
      <<"d", "e", "a", "d", "b", "e", "e", "f", "0", "0">>,
      Str8("1", "e") \o <<"z", "z">>,
      Str8("1", "e") \o <<"9", "9">>,
      <<"1", "2", "3", "4", "5", "g", "7", "8">>,
      <<"g", "2", "3", "4", "5", "6", "7", "8">>,
      <<"0", "0", "0", "0", "0", "0", "0", "g", "1">>,
      <<"0", "x", "1", "f">>,
      <<"0", "x", "1", "2", "3", "4", "5", "6", "7", "8">>,
      <<"-", "f", "f">>,
      <<"-", "1", "2", "3", "4", "5", "6", "7", "8", "9">>,
      <<"1", "_", "0">>,
      <<"1", "_", "_", "0">>,
      <<"_", "1", "0">>,
      <<" ", "f", "f">>,
      <<"+">>,
      <<"0", "x">> }

AllHashes == SeedHashes \cup OtherHashes

ConcHashes ==
    { Str8("1", "e"), Str8("1", "e") \o <<"9", "9">>, Str8("5", "5"), <<"x", "y">> }

PairOutput(f, r) == [kind |-> "pair", fresh |-> f, rotten |-> r]
SingleOutput(v) == [kind |-> "single", value |-> v]

\* every pair of twentieths from -0.1 to ProbGridMax/20, every (p, 1 - p) of
\* hundredths, pairs with a NaN, and single outputs
AllOutputs ==
    {PairOutput(FDivInt(a, 20), FDivInt(b, 20)) : a, b \in (0 - 2)..ProbGridMax}
    \cup {PairOutput(FDivInt(n, 100), FSub(One, FDivInt(n, 100))) : n \in 0..100}
    \cup {PairOutput(NaN, FDivInt(7, 10)), PairOutput(FDivInt(7, 10), NaN), PairOutput(NaN, NaN)}
    \cup {SingleOutput(FDivInt(n, 8)) : n \in 0..8}

ConcOutputs ==
    { PairOutput(FDivInt(8, 10), FDivInt(2, 10)),
      PairOutput(FDivInt(3, 10), NaN) }

\* what the caller sends as an image: one that decodes, one that does not
Images == {"image", "garbage"}

\* an image URL: one that serves an image, a malformed one, one that fails to
\* download, one that serves something else
Urls == {"image", "invalid_url", "unreachable", "not_an_image"}

\* the images given to the fallback model, named after their mean brightness
FallbackImages ==
    {"mean_0.0", "mean_0.15", "mean_0.29", "mean_0.3", "mean_0.5",
     "mean_0.7", "mean_0.71", "mean_0.85", "mean_1.0"}

\* np.mean(image)
ImageMean ==
    [image \in FallbackImages |->
        CASE image = "mean_0.0" -> FZero
          [] image = "mean_0.15" -> FDivInt(15, 100)
          [] image = "mean_0.29" -> FDivInt(29, 100)
          [] image = "mean_0.3" -> FDivInt(3, 10)
          [] image = "mean_0.5" -> FDivInt(1, 2)
          [] image = "mean_0.7" -> FDivInt(7, 10)
          [] image = "mean_0.71" -> FDivInt(71, 100)
          [] image = "mean_0.85" -> FDivInt(85, 100)
          [] image = "mean_1.0" -> One]

\* 2^-53, the step of np.random.random()
JitterStep == FRound(0, <<1>>, 0 - MantBits)

\* np.random.random(): a multiple of 2^-53 in [0, 1); here the multiples of
\* 2^-JitterBits, the smallest values and the largest ones
Jitters ==
    {FDivInt(j, 2 ^ JitterBits) : j \in 0..(2 ^ JitterBits - 1)}
    \cup {JitterStep, FSub(One, JitterStep), FSub(One, FAdd(JitterStep, JitterStep))}

AllClocks == ClockBase..(ClockBase + ClockSpan)
StampClocks == {ClockBase, ClockBase + 1}

\* fresh_prob and rotten_prob as predict_damage_from_data reads them from the
\* model's output (lines 182-193)
OutputFresh(output) == IF output.kind = "pair" THEN output.fresh ELSE output.value

OutputRotten(output) ==
    IF output.kind = "pair" THEN output.rotten ELSE FSub(One, output.value)

(***************************************************************************)
(* The float arithmetic of a scoring step, as one record per input.  The   *)
(* ...Table definitions hold the same records for every input of the       *)
(* model: TLC evaluates such a function once, not once per state.          *)
(***************************************************************************)
\* predict_damage_from_hash, lines 243-262
HashRecord(seed, fresh_prob, confidence) ==
    [fresh_prob   |-> fresh_prob,
     confidence   |-> confidence,
     damage_score |-> HashDamageScore(fresh_prob),
     prediction   |-> HashPrediction(seed),
     rounded      |-> FRound2(confidence)]

HashOfProb(seed, fresh_prob) == HashRecord(seed, fresh_prob, HashConfidence(fresh_prob))

HashScoring(seed) == HashOfProb(seed, HashFreshProb(seed))

HashScoringTable == [seed \in 0..99 |-> HashScoring(seed)]

\* the result fields that are the same in both servers
ScoreRecord(fresh_prob, rotten_prob, damage_score, prediction, confidence) ==
    [raises             |-> damage_score = ValueError,
     damage_score       |-> damage_score,
     prediction         |-> prediction,
     confidence         |-> confidence,
     rounded            |-> FRound2(confidence),
     fresh_probability  |-> FRound2(FMul(fresh_prob, Hundred)),
     rotten_probability |-> FRound2(FMul(rotten_prob, Hundred))]

\* int(raw), which raises on a NaN, then the bounds check
DataDamageScore(raw) == IF IsNaN(raw) THEN ValueError ELSE Clamp(FTrunc(raw))

\* predict_damage_from_data, lines 195-215
DataScoring(fresh_prob, rotten_prob) ==
    ScoreRecord(fresh_prob, rotten_prob,
                DataDamageScore(DataRawScore(fresh_prob, rotten_prob)),
                DataPrediction(fresh_prob, rotten_prob),
                DataConfidence(fresh_prob, rotten_prob))

UrlDamageScore(raw) == IF IsNaN(raw) THEN ValueError ELSE UrlClamp(FTrunc(raw))

\* predict_damage of ml_api_server, lines 83-101
UrlScoring(fresh_prob, rotten_prob) ==
    ScoreRecord(fresh_prob, rotten_prob,
                UrlDamageScore(UrlRawScore(fresh_prob, rotten_prob)),
                UrlPrediction(fresh_prob, rotten_prob),
                FMul(UrlConfidence(fresh_prob, rotten_prob), Hundred))

\* the outputs of the fallback model for the images and jitters of the model
FallbackOutputs ==
    [image \in FallbackImages |->
        [jitter \in Jitters |-> FallbackOutput(FallbackFreshProb(ImageMean[image], jitter))]]

FallbackPairs ==
    {<<FallbackOutputs[i][j].fresh, FallbackOutputs[i][j].rotten>> :
        i \in FallbackImages, j \in Jitters}

ModelPairs ==
    {<<OutputFresh(o), OutputRotten(o)>> : o \in AllOutputs \cup ConcOutputs}
    \cup FallbackPairs

DataScoringTable == [p \in ModelPairs |-> DataScoring(p[1], p[2])]

UrlScoringTable == [p \in ModelPairs |-> UrlScoring(p[1], p[2])]

Idle == [pc |-> "idle"]

Init ==
    /\ request_count = [srv \in Servers |-> 0]
    /\ np_random_seed = Unseeded
    /\ th = [t \in Threads |-> Idle]
    /\ calls = [srv \in Servers |-> 0]
    /\ first_score = <<>>
    /\ http = [t \in Threads |-> [pc |-> "none", status |-> 0, called |-> FALSE]]

\* a handler thread is free to take the next request
CanStart(t) == th[t].pc \in {"idle", "done", "raised"}

Raised(op, arg, error) == [pc |-> "raised", op |-> op, arg |-> arg, error |-> error]

ScoreOf(result) ==
    [damage_score |-> result.damage_score,
     prediction   |-> result.prediction,
     confidence   |-> result.confidence]

(***************************************************************************)
(* chainlink_ml_server.ChainlinkMLAPI.predict_damage_from_hash             *)
(***************************************************************************)
\* the call, and the read of self.request_count in "self.request_count += 1"
HashCall(t, image_hash, cap) ==
    /\ CanStart(t)
    /\ calls[HashServer] < cap
    /\ calls' = [calls EXCEPT ![HashServer] = @ + 1]
    /\ th' = [th EXCEPT ![t] = [pc |-> "hash_store", op |-> "hash", arg |-> image_hash,
                                loaded |-> request_count[HashServer]]]
    /\ UNCHANGED <<request_count, np_random_seed, first_score>>

\* a write that stores the value read, without adding one
HashStoreWithoutIncrement(t) ==
    /\ th[t].pc = "hash_store"
    /\ request_count' = [request_count EXCEPT ![HashServer] = th[t].loaded]
    /\ th' = [th EXCEPT ![t] = [pc |-> "hash_seed", op |-> "hash", arg |-> th[t].arg]]
    /\ UNCHANGED <<np_random_seed, calls, first_score>>

\* the write of self.request_count in "self.request_count += 1"
HashStore(t) ==
    /\ th[t].pc = "hash_store"
    /\ request_count' = [request_count EXCEPT ![HashServer] = th[t].loaded + 1]
    /\ th' = [th EXCEPT ![t] = [pc |-> "hash_seed", op |-> "hash", arg |-> th[t].arg]]
    /\ UNCHANGED <<np_random_seed, calls, first_score>>

HashSeeded(t, seed) ==
    IF seed = ValueError
    THEN /\ th' = [th EXCEPT ![t] =
                     Raised("hash", th[t].arg, "Hash-based prediction failed")]
         /\ UNCHANGED np_random_seed
    ELSE /\ th' = [th EXCEPT ![t] = [pc |-> "hash_score", op |-> "hash",
                                     arg |-> th[t].arg, seed |-> seed]]
         /\ np_random_seed' = seed

\* seed = int(image_hash[:8], 16) % 100; np.random.seed(seed)
HashSeedGenerator(t) ==
    /\ th[t].pc = "hash_seed"
    /\ HashSeeded(t, HashSeed(th[t].arg))
    /\ UNCHANGED <<request_count, calls, first_score>>

\* a result whose damage score moves with the request counter
HashResultWithCounter(sc, now) ==
    [damage_score  |-> (sc.damage_score + request_count[HashServer]) % 101,
     prediction    |-> sc.prediction,
     confidence    |-> sc.rounded,
     timestamp     |-> now,
     request_count |-> request_count[HashServer]]

\* the result dictionary of lines 259-268
HashResult(sc, now) ==
    [damage_score  |-> sc.damage_score,
     prediction    |-> sc.prediction,
     confidence    |-> sc.rounded,
     timestamp     |-> now,
     request_count |-> request_count[HashServer]]

HashReturn(t, sc, result) ==
    /\ th' = [th EXCEPT ![t] = [pc |-> "done", op |-> "hash", arg |-> th[t].arg,
                                seed |-> th[t].seed, fresh_prob |-> sc.fresh_prob,
                                confidence |-> sc.confidence, result |-> result]]
    /\ first_score' =
          IF th[t].arg \in DOMAIN first_score THEN first_score
          ELSE first_score @@ (th[t].arg :> ScoreOf(result))

HashScoreRow(t, sc, now) == HashReturn(t, sc, HashResult(sc, now))

\* the tiers, the score, the result (lines 243-270)
HashScore(t, now) ==
    /\ th[t].pc = "hash_score"
    /\ HashScoreRow(t, HashScoringTable[th[t].seed], now)
    /\ UNCHANGED <<request_count, np_random_seed, calls>>

(***************************************************************************)
(* chainlink_ml_server.ChainlinkMLAPI.predict_damage_from_data             *)
(***************************************************************************)
DataCall(t, image_data, cap) ==
    /\ CanStart(t)
    /\ calls[HashServer] < cap
    /\ calls' = [calls EXCEPT ![HashServer] = @ + 1]
    /\ th' = [th EXCEPT ![t] = [pc |-> "data_store", op |-> "data", arg |-> image_data,
                                loaded |-> request_count[HashServer]]]
    /\ UNCHANGED <<request_count, np_random_seed, first_score>>

DataStore(t) ==
    /\ th[t].pc = "data_store"
    /\ request_count' = [request_count EXCEPT ![HashServer] = th[t].loaded + 1]
    /\ th' = [th EXCEPT ![t] = [pc |-> "data_predict", op |-> "data", arg |-> th[t].arg]]
    /\ UNCHANGED <<np_random_seed, calls, first_score>>

\* preprocess_image_data, self.model.predict and the reading of its output
\* (lines 174-193); output is what the model returns for the image
DataPredict(t, output) ==
    /\ th[t].pc = "data_predict"
    /\ IF th[t].arg = "garbage"
       THEN th' = [th EXCEPT ![t] = Raised("data", th[t].arg, "Prediction failed")]
       ELSE th' = [th EXCEPT ![t] =
                     [pc |-> "data_score", op |-> "data", arg |-> th[t].arg,
                      fresh_prob  |-> OutputFresh(output),
                      rotten_prob |-> OutputRotten(output)]]
    /\ UNCHANGED <<request_count, np_random_seed, calls, first_score>>

\* preprocess_image_data and self.model.predict when load_model fell back to
\* FallbackModel (lines 77-80, 81-106)
FallbackPredict(t, jitter) ==
    /\ th[t].pc = "data_predict"
    /\ IF th[t].arg \notin FallbackImages
       THEN th' = [th EXCEPT ![t] = Raised("data", th[t].arg, "Prediction failed")]
       ELSE th' = [th EXCEPT ![t] =
                     [pc |-> "data_score", op |-> "data", arg |-> th[t].arg,
                      fresh_prob  |-> FallbackOutputs[th[t].arg][jitter].fresh,
                      rotten_prob |-> FallbackOutputs[th[t].arg][jitter].rotten]]
    /\ UNCHANGED <<request_count, np_random_seed, calls, first_score>>

DataScoreRow(t, sc, now) ==
    IF sc.raises
    THEN th' = [th EXCEPT ![t] = Raised("data", th[t].arg, "Prediction failed")]
    ELSE th' = [th EXCEPT ![t] =
           [pc |-> "done", op |-> "data", arg |-> th[t].arg,
            fresh_prob |-> th[t].fresh_prob, rotten_prob |-> th[t].rotten_prob,
            confidence |-> sc.confidence,
            result |->
              [damage_score       |-> sc.damage_score,
               prediction         |-> sc.prediction,
               confidence         |-> sc.rounded,
               fresh_probability  |-> sc.fresh_probability,
               rotten_probability |-> sc.rotten_probability,
               timestamp          |-> now,
               request_count      |-> request_count[HashServer]]]]

\* lines 195-225; int() of a NaN raises ValueError
DataScore(t, now) ==
    /\ th[t].pc = "data_score"
    /\ DataScoreRow(t, DataScoringTable[<<th[t].fresh_prob, th[t].rotten_prob>>], now)
    /\ UNCHANGED <<request_count, np_random_seed, calls, first_score>>

(***************************************************************************)
(* ml_api_server.ChainlinkMLAPI.predict_damage                             *)
(***************************************************************************)
UrlCall(t, image_url, cap) ==
    /\ CanStart(t)
    /\ calls[UrlServer] < cap
    /\ calls' = [calls EXCEPT ![UrlServer] = @ + 1]
    /\ th' = [th EXCEPT ![t] = [pc |-> "url_store", op |-> "url", arg |-> image_url,
                                loaded |-> request_count[UrlServer]]]
    /\ UNCHANGED <<request_count, np_random_seed, first_score>>

UrlStore(t) ==
    /\ th[t].pc = "url_store"
    /\ request_count' = [request_count EXCEPT ![UrlServer] = th[t].loaded + 1]
    /\ th' = [th EXCEPT ![t] = [pc |-> "url_predict", op |-> "url", arg |-> th[t].arg]]
    /\ UNCHANGED <<np_random_seed, calls, first_score>>

\* preprocess_image_from_url and self.model.predict (lines 74-81); a
\* single-output model has no predictions[0][1]
UrlPredict(t, output) ==
    /\ th[t].pc = "url_predict"
    /\ IF th[t].arg # "image" \/ output.kind # "pair"
       THEN th' = [th EXCEPT ![t] = Raised("url", th[t].arg, "Prediction failed")]
       ELSE th' = [th EXCEPT ![t] =
                     [pc |-> "url_score", op |-> "url", arg |-> th[t].arg,
                      fresh_prob |-> output.fresh, rotten_prob |-> output.rotten]]
    /\ UNCHANGED <<request_count, np_random_seed, calls, first_score>>

UrlScoreRow(t, sc, now) ==
    IF sc.raises
    THEN th' = [th EXCEPT ![t] = Raised("url", th[t].arg, "Prediction failed")]
    ELSE th' = [th EXCEPT ![t] =
           [pc |-> "done", op |-> "url", arg |-> th[t].arg,
            fresh_prob |-> th[t].fresh_prob, rotten_prob |-> th[t].rotten_prob,
            confidence |-> sc.confidence,
            result |->
              [prediction         |-> sc.prediction,
               damage_score       |-> sc.damage_score,
               confidence         |-> sc.rounded,
               fresh_probability  |-> sc.fresh_probability,
               rotten_probability |-> sc.rotten_probability,
               timestamp          |-> now,
               request_id         |-> request_count[UrlServer]]]]

\* lines 83-105
UrlScore(t, now) ==
    /\ th[t].pc = "url_score"
    /\ UrlScoreRow(t, UrlScoringTable[<<th[t].fresh_prob, th[t].rotten_prob>>], now)
    /\ UNCHANGED <<request_count, np_random_seed, calls, first_score>>

(***************************************************************************)
(* chainlink_ml_server.predict_simple: one step, the clock its only input  *)
(***************************************************************************)
PredictSimple(t, now) ==
    /\ CanStart(t)
    /\ LET seed == SimpleSeed(now)
       IN  th' = [th EXCEPT ![t] =
                    [pc |-> "done", op |-> "simple", arg |-> now, seed |-> seed,
                     result |-> [damage_score |-> SimpleDamageScore(seed),
                                 model        |-> "quick_model_FINAL_simple"]]]
    /\ UNCHANGED <<request_count, np_random_seed, calls, first_score>>

(***************************************************************************)
(* The HTTP endpoints.  A request parameter or JSON field is Missing or    *)
(* Given(value).  A POST request has a JSON object as its body or no JSON  *)
(* at all; for the latter, request.get_json() returns None (Flask before   *)
(* 2.1) or raises UnsupportedMediaType (Flask 2.1 and later): the source   *)
(* pins no version, so get_json_raises is either.                          *)
(***************************************************************************)
Missing == [given |-> FALSE]
Given(value) == [given |-> TRUE, value |-> value]

\* "not image_hash", "not image_url": None or the empty string
HashFalsy(param) == ~param.given \/ param.value = <<>>
UrlFalsy(param) == ~param.given \/ param.value = ""

\* a thread of the server is free to handle a request
Free(t) == CanStart(t) /\ http[t].pc # "handling"

Handling(t, endpoint, req) ==
    http' = [http EXCEPT ![t] =
               [pc |-> "handling", endpoint |-> endpoint, req |-> req, status |-> 0, called |-> TRUE,
                prev |-> http[t].status, prev_called |-> http[t].called]]

\* return jsonify(body), status; called: the scorer was invoked for the
\* request; prev, prev_called: the status of the answer before, and whether
\* the scorer was invoked for it (history)
Reply(t, endpoint, req, status, body, called) ==
    http' = [http EXCEPT ![t] =
               [pc |-> "responded", endpoint |-> endpoint, req |-> req, status |-> status,
                body |-> body, called |-> called,
                prev |-> IF called THEN http[t].prev ELSE http[t].status,
                prev_called |-> IF called THEN http[t].prev_called ELSE http[t].called]]

ErrorBody(error) == [error |-> error, damage_score |-> 0 - 1]

\* an error body that keeps a score
ErrorBodyWithScore(error, now) == [error |-> error, damage_score |-> 0, timestamp |-> now]

ErrorBodyAt(error, now) == [error |-> error, damage_score |-> 0 - 1, timestamp |-> now]

NoJsonError == "415 Unsupported Media Type"

\* chainlink_ml_server.predict_from_hash (lines 383-407), up to the scorer call;
\* req.method is GET (req.hash from the query) or POST (req.json: the body is
\* a JSON object, req.hash its field)
PredictFromHash(t, req, get_json_raises, cap) ==
    /\ Free(t)
    /\ IF req.method = "POST" /\ ~req.json /\ get_json_raises
       THEN /\ Reply(t, "/predict_hash", req, 500, ErrorBody(NoJsonError), FALSE)
            /\ UNCHANGED scorer_vars
       ELSE IF (req.method = "POST" /\ ~req.json) \/ HashFalsy(req.hash)
       THEN /\ Reply(t, "/predict_hash", req, 400, ErrorBody("hash parameter required"), FALSE)
            /\ UNCHANGED scorer_vars
       ELSE /\ HashCall(t, req.hash.value, cap)
            /\ Handling(t, "/predict_hash", req)

\* lines 400-407: the scorer has returned or raised
PredictFromHashReturn(t) ==
    /\ http[t].pc = "handling" /\ http[t].endpoint = "/predict_hash"
    /\ th[t].pc \in {"done", "raised"}
    /\ IF th[t].pc = "done"
       THEN Reply(t, "/predict_hash", http[t].req, 200, th[t].result, TRUE)
       ELSE Reply(t, "/predict_hash", http[t].req, 500, ErrorBody(th[t].error), TRUE)
    /\ UNCHANGED scorer_vars

\* chainlink_ml_server.predict_damage, the /predict endpoint (lines 311-348),
\* up to the scorer call; req.json: the body is a JSON object; req.empty: it
\* is {}; req.image_base64, req.image_hash: its fields
PredictDamageEndpoint(t, req, get_json_raises, now, cap) ==
    /\ Free(t)
    /\ IF ~req.json /\ get_json_raises
       THEN /\ Reply(t, "/predict", req, 500, ErrorBodyAt(NoJsonError, now), FALSE)
            /\ UNCHANGED scorer_vars
       ELSE IF ~req.json \/ req.empty
       THEN /\ Reply(t, "/predict", req, 400, ErrorBody("No JSON data provided"), FALSE)
            /\ UNCHANGED scorer_vars
       ELSE IF req.image_base64.given
       THEN /\ DataCall(t, req.image_base64.value, cap)
            /\ Handling(t, "/predict", req)
       ELSE IF req.image_hash.given
       THEN /\ HashCall(t, req.image_hash.value, cap)
            /\ Handling(t, "/predict", req)
       ELSE /\ Reply(t, "/predict", req, 400, ErrorBody("No valid image data provided"), FALSE)
            /\ UNCHANGED scorer_vars

\* lines 335-348
PredictDamageReturn(t, now) ==
    /\ http[t].pc = "handling" /\ http[t].endpoint = "/predict"
    /\ th[t].pc \in {"done", "raised"} /\ th[t].op \in {"data", "hash"}
    /\ IF th[t].pc = "done"
       THEN Reply(t, "/predict", http[t].req, 200, th[t].result, TRUE)
       ELSE Reply(t, "/predict", http[t].req, 500, ErrorBodyAt(th[t].error, now), TRUE)
    /\ UNCHANGED scorer_vars

\* chainlink_ml_server.predict_from_base64 (lines 350-381), up to the scorer call
PredictFromBase64(t, req, get_json_raises, cap) ==
    /\ Free(t)
    /\ IF ~req.json /\ get_json_raises
       THEN /\ Reply(t, "/predict_base64", req, 500, ErrorBody(NoJsonError), FALSE)
            /\ UNCHANGED scorer_vars
       ELSE IF ~req.json \/ req.empty \/ ~req.image_data.given
       THEN /\ Reply(t, "/predict_base64", req, 400, ErrorBody("image_data field required"), FALSE)
            /\ UNCHANGED scorer_vars
       ELSE /\ DataCall(t, req.image_data.value, cap)
            /\ Handling(t, "/predict_base64", req)

\* lines 366-381
PredictFromBase64Return(t) ==
    /\ http[t].pc = "handling" /\ http[t].endpoint = "/predict_base64"
    /\ th[t].pc \in {"done", "raised"}
    /\ IF th[t].pc = "done"
       THEN Reply(t, "/predict_base64", http[t].req, 200,
                  [damage_score |-> th[t].result.damage_score,
                   prediction   |-> th[t].result.prediction,
                   confidence   |-> th[t].result.confidence,
                   timestamp    |-> th[t].result.timestamp,
                   model        |-> "quick_model_FINAL"], TRUE)
       ELSE Reply(t, "/predict_base64", http[t].req, 500, ErrorBody(th[t].error), TRUE)
    /\ UNCHANGED scorer_vars

SimpleRequest == [method |-> "GET"]

\* chainlink_ml_server.predict_simple as an endpoint: the whole handler when
\* nothing raises
PredictSimpleEndpoint(t, now) ==
    /\ http[t].pc # "handling"
    /\ PredictSimple(t, now)
    /\ Reply(t, "/predict_simple", SimpleRequest, 200, th'[t].result, FALSE)

\* lines 429-432: the handler of an exception raised in the try block of
\* predict_simple (a MemoryError, say); the body has no error field
PredictSimpleRaises(t) ==
    /\ Free(t)
    /\ Reply(t, "/predict_simple", SimpleRequest, 500, [damage_score |-> 0 - 1], FALSE)
    /\ UNCHANGED scorer_vars

\* ml_api_server.chainlink_predict, the /predict endpoint (lines 113-155), up
\* to the scorer call
ChainlinkPredict(t, req, get_json_raises, now, cap) ==
    /\ Free(t)
    /\ IF req.method = "POST" /\ ~req.json /\ get_json_raises
       THEN /\ Reply(t, "url/predict", req, 500, ErrorBodyAt(NoJsonError, now), FALSE)
            /\ UNCHANGED scorer_vars
       ELSE IF (req.method = "POST" /\ ~req.json) \/ UrlFalsy(req.image_url)
       THEN /\ Reply(t, "url/predict", req, 400, ErrorBody("image_url parameter required"), FALSE)
            /\ UNCHANGED scorer_vars
       ELSE /\ UrlCall(t, req.image_url.value, cap)
            /\ Handling(t, "url/predict", req)

\* lines 133-155; confidence: int(result['confidence'])
ChainlinkPredictReturn(t, now) ==
    /\ http[t].pc = "handling" /\ http[t].endpoint = "url/predict"
    /\ th[t].pc \in {"done", "raised"}
    /\ IF th[t].pc = "done"
       THEN Reply(t, "url/predict", http[t].req, 200,
                  [damage_score  |-> th[t].result.damage_score,
                   prediction    |-> th[t].result.prediction,
                   confidence    |-> FTrunc(th[t].result.confidence),
                   timestamp     |-> th[t].result.timestamp,
                   model_version |-> "v1.0"], TRUE)
       ELSE Reply(t, "url/predict", http[t].req, 500, ErrorBodyAt(th[t].error, now), TRUE)
    /\ UNCHANGED scorer_vars

(***************************************************************************)
(* The temperature server (tempe.py), a process of its own.                *)
(***************************************************************************)
\* the modules tempe.py imports (lines 1-4)
TempeImports == {"random", "os", "flask", "flask_cors"}

\* round(random.uniform(-5.0, 35.0), 2), uniform being a + (b - a) * random()
SensorTemp(jitter) == FRound2(FAdd(FInt(0 - 5), FMul(FSub(FInt(35), FInt(0 - 5)), jitter)))

SensorRequest == [method |-> "GET"]

\* what Flask answers when a view raises: its 500 page
InternalServerError == [html |-> "500 Internal Server Error"]

\* tempe.get_sensor_data (lines 9-21): the dictionary is built with
\* int(time.time()), which raises NameError unless time is imported; the
\* view has no handler for it
GetSensorData(t, jitter, now) ==
    /\ Free(t)
    /\ IF "time" \in TempeImports
       THEN Reply(t, "/sensor", SensorRequest, 200,
                  [temperature |-> SensorTemp(jitter),
                   timestamp   |-> now,
                   sensor_id   |-> "TEMP_001",
                   status      |-> "active"], FALSE)
       ELSE Reply(t, "/sensor", SensorRequest, 500, InternalServerError, FALSE)
    /\ UNCHANGED scorer_vars

(***************************************************************************)
(* The requests of the model.                                              *)
(***************************************************************************)
Methods == {"GET", "POST"}

HashRequestsOf(hashes) ==
    {[method |-> m, json |-> TRUE, hash |-> Given(h)] : m \in Methods, h \in hashes \cup {<<>>}}
    \cup {[method |-> m, json |-> TRUE, hash |-> Missing] : m \in Methods}
    \cup {[method |-> "POST", json |-> FALSE, hash |-> Missing]}

PredictRequestsOf(images, hashes) ==
    {[json |-> TRUE, empty |-> FALSE, image_base64 |-> Given(i), image_hash |-> Missing] :
        i \in images}
    \cup {[json |-> TRUE, empty |-> FALSE, image_base64 |-> Missing, image_hash |-> Given(h)] :
            h \in hashes \cup {<<>>}}
    \cup {[json |-> TRUE, empty |-> e, image_base64 |-> Missing, image_hash |-> Missing] :
            e \in BOOLEAN}
    \cup {[json |-> FALSE, empty |-> FALSE, image_base64 |-> Missing, image_hash |-> Missing]}

Base64RequestsOf(images) ==
    {[json |-> TRUE, empty |-> FALSE, image_data |-> Given(i)] : i \in images}
    \cup {[json |-> TRUE, empty |-> e, image_data |-> Missing] : e \in BOOLEAN}
    \cup {[json |-> FALSE, empty |-> FALSE, image_data |-> Missing]}

UrlRequestsOf(urls) ==
    {[method |-> m, json |-> TRUE, image_url |-> Given(u)] : m \in Methods, u \in urls \cup {""}}
    \cup {[method |-> m, json |-> TRUE, image_url |-> Missing] : m \in Methods}
    \cup {[method |-> "POST", json |-> FALSE, image_url |-> Missing]}

(***************************************************************************)
(* Specifications.  Spec: NumThreads handler threads on a few inputs, every *)
(* interleaving of their steps.  SpecScoring: one request, over the whole  *)
(* input sets.  SpecSequential: requests one after another on one thread.  *)
(* SpecFallback: image requests served by the fallback model.              *)
(***************************************************************************)
\* The scorer calls of chainlink_ml_server made by concurrent handlers; the
\* endpoints add no shared state to them.
Next ==
    \E t \in Threads :
        \/ \E h \in ConcHashes : HashCall(t, h, MaxCalls) /\ UNCHANGED http
        \/ HashStore(t) /\ UNCHANGED http
        \/ HashSeedGenerator(t) /\ UNCHANGED http
        \/ HashScore(t, ClockBase) /\ UNCHANGED http
        \/ DataCall(t, "image", MaxCalls) /\ UNCHANGED http
        \/ DataStore(t) /\ UNCHANGED http
        \/ \E o \in ConcOutputs : DataPredict(t, o) /\ UNCHANGED http
        \/ DataScore(t, ClockBase) /\ UNCHANGED http
        \/ PredictSimple(t, ClockBase + 24) /\ UNCHANGED http

Spec == Init /\ [][Next]_vars

\* One request, handled by thread 1, over the full input sets: every hash,
\* every output of the classifier, every clock reading, every endpoint of
\* both servers.
FirstRequest == th[1] = Idle /\ http[1].pc = "none"

NextScoring ==
    \/ \E req \in HashRequestsOf(AllHashes) :
          \E get_json_raises \in BOOLEAN :
             FirstRequest /\ PredictFromHash(1, req, get_json_raises, MaxCalls)
    \/ \E req \in PredictRequestsOf(Images, AllHashes) :
          \E get_json_raises \in BOOLEAN :
             FirstRequest /\ PredictDamageEndpoint(1, req, get_json_raises, ClockBase, MaxCalls)
    \/ \E req \in Base64RequestsOf(Images) :
          \E get_json_raises \in BOOLEAN :
             FirstRequest /\ PredictFromBase64(1, req, get_json_raises, MaxCalls)
    \/ \E req \in UrlRequestsOf(Urls) :
          \E get_json_raises \in BOOLEAN :
             FirstRequest /\ ChainlinkPredict(1, req, get_json_raises, ClockBase, MaxCalls)
    \/ HashStore(1) /\ UNCHANGED http
    \/ HashSeedGenerator(1) /\ UNCHANGED http
    \/ \E now \in StampClocks : HashScore(1, now) /\ UNCHANGED http
    \/ DataStore(1) /\ UNCHANGED http
    \/ \E o \in AllOutputs : DataPredict(1, o) /\ UNCHANGED http
    \/ \E now \in StampClocks : DataScore(1, now) /\ UNCHANGED http
    \/ UrlStore(1) /\ UNCHANGED http
    \/ \E o \in AllOutputs : UrlPredict(1, o) /\ UNCHANGED http
    \/ \E now \in StampClocks : UrlScore(1, now) /\ UNCHANGED http
    \/ PredictFromHashReturn(1)
    \/ PredictDamageReturn(1, ClockBase)
    \/ PredictFromBase64Return(1)
    \/ ChainlinkPredictReturn(1, ClockBase)
    \/ \E now \in AllClocks : FirstRequest /\ PredictSimpleEndpoint(1, now)
    \/ FirstRequest /\ PredictSimpleRaises(1)

SpecScoring == Init /\ [][NextScoring]_vars

\* Requests handled one after another by thread 1, on both servers and on
\* the temperature server, failed ones among them.
SeqHashes == {Str8("1", "e"), <<"x", "y">>}
SeqUrls == {"image", "unreachable"}

NextSequential ==
    \/ \E req \in HashRequestsOf(SeqHashes) :
          \E get_json_raises \in BOOLEAN :
             PredictFromHash(1, req, get_json_raises, MaxCalls)
    \/ \E req \in PredictRequestsOf(Images, SeqHashes) :
          \E get_json_raises \in BOOLEAN :
             PredictDamageEndpoint(1, req, get_json_raises, ClockBase, MaxCalls)
    \/ \E req \in Base64RequestsOf(Images) :
          \E get_json_raises \in BOOLEAN :
             PredictFromBase64(1, req, get_json_raises, MaxCalls)
    \/ \E req \in UrlRequestsOf(SeqUrls) :
          \E get_json_raises \in BOOLEAN :
             ChainlinkPredict(1, req, get_json_raises, ClockBase, MaxCalls)
    \/ HashStore(1) /\ UNCHANGED http
    \/ HashSeedGenerator(1) /\ UNCHANGED http
    \/ HashScore(1, ClockBase) /\ UNCHANGED http
    \/ DataStore(1) /\ UNCHANGED http
    \/ \E o \in ConcOutputs : DataPredict(1, o) /\ UNCHANGED http
    \/ DataScore(1, ClockBase) /\ UNCHANGED http
    \/ UrlStore(1) /\ UNCHANGED http
    \/ \E o \in ConcOutputs : UrlPredict(1, o) /\ UNCHANGED http
    \/ UrlScore(1, ClockBase) /\ UNCHANGED http
    \/ PredictFromHashReturn(1)
    \/ PredictDamageReturn(1, ClockBase)
    \/ PredictFromBase64Return(1)
    \/ ChainlinkPredictReturn(1, ClockBase)
    \/ PredictSimpleEndpoint(1, ClockBase + 24)
    \/ PredictSimpleRaises(1)
    \/ \E jitter \in Jitters : GetSensorData(1, jitter, ClockBase)

SpecSequential == Init /\ [][NextSequential]_vars

\* The server started without its model file: load_model has installed
\* FallbackModel.  Image requests one after another on thread 1.
NextFallback ==
    \/ \E req \in Base64RequestsOf(FallbackImages \cup {"garbage"}) :
          \E get_json_raises \in BOOLEAN :
             PredictFromBase64(1, req, get_json_raises, MaxCalls)
    \/ DataStore(1) /\ UNCHANGED http
    \/ \E jitter \in Jitters : FallbackPredict(1, jitter) /\ UNCHANGED http
    \/ DataScore(1, ClockBase) /\ UNCHANGED http
    \/ PredictFromBase64Return(1)

SpecFallback == Init /\ [][NextFallback]_vars

(***************************************************************************)
(* Properties.  Returned(t, ops): thread t holds the result that one of    *)
(* the operations ops has returned.                                        *)
(***************************************************************************)
Returned(t, ops) == th[t].pc = "done" /\ th[t].op \in ops

ProbabilityOps == {"data", "url"}

\* C1: any two calls of predict_damage_from_hash with the same valid hash
\* return the same damage score, verdict and confidence, whatever other calls
\* ran before or between them and however the threads interleave: every call
\* that returns, returns the score the first call with that hash returned.
HashDeterminism ==
    \A t \in Threads :
        Returned(t, {"hash"}) =>
            /\ th[t].arg \in DOMAIN first_score
            /\ ScoreOf(th[t].result) = first_score[th[t].arg]

\* two threads hold results for the same hash from different requests, and a
\* call with another hash has returned as well
HashDeterminismWitness ==
    \E t1, t2 \in Threads :
        /\ t1 # t2
        /\ Returned(t1, {"hash"}) /\ Returned(t2, {"hash"})
        /\ th[t1].arg = th[t2].arg
        /\ th[t1].result.request_count # th[t2].result.request_count
        /\ Cardinality(DOMAIN first_score) >= 2

\* C2: every result a scoring operation returns has an integer damage score in
\* [0, 100].
ScoreBounded ==
    \A t \in Threads :
        th[t].pc = "done" => th[t].result.damage_score \in 0..100

\* the image scorer returned 100 for a rotten probability above 1
ScoreBoundedWitness ==
    \E t \in Threads :
        /\ Returned(t, {"data"})
        /\ FGt(th[t].rotten_prob, One)
        /\ th[t].result.damage_score = 100

\* C3: every result of the hash scorer and of the probability scorers has a
\* confidence in [0, 100], for pairs outside [0, 1] too.
ConfidenceBounded ==
    \A t \in Threads :
        Returned(t, {"hash"} \cup ProbabilityOps) =>
            /\ FGe(th[t].result.confidence, FZero)
            /\ FLe(th[t].result.confidence, Hundred)

\* the documented tiers: the constant and the slope of freshProb
TierBase(seed) ==
    IF seed < 20 THEN FDivInt(5, 100)
    ELSE IF seed < 40 THEN FDivInt(30, 100)
    ELSE IF seed < 80 THEN FDivInt(65, 100)
    ELSE FDivInt(85, 100)

TierSlope(seed) == IF seed < 80 THEN FDivInt(25, 100) ELSE FDivInt(15, 100)

TierFreshProb ==
    [seed \in 0..99 |-> FAdd(TierBase(seed), FMul(FDivInt(seed, 100), TierSlope(seed)))]

TierVerdict(seed) == IF seed \in 0..39 THEN "rotten" ELSE "fresh"

\* the value of the two-digit hashes 000000ab
TwoDigitValue(image_hash) == 16 * DigitValue(image_hash[7]) + DigitValue(image_hash[8])

\* C4: with seed = parseHex(first 8 characters) mod 100, the verdict is ROTTEN
\* for seeds in [0, 40) and FRESH for seeds in [40, 100), and freshProb is the
\* documented formula of the seed's tier.
TierMapping ==
    \A t \in Threads :
        Returned(t, {"hash"}) =>
            /\ th[t].seed \in 0..99
            /\ th[t].arg \in SeedHashes => th[t].seed = TwoDigitValue(th[t].arg) % 100
            /\ th[t].result.prediction = TierVerdict(th[t].seed)
            /\ th[t].fresh_prob = TierFreshProb[th[t].seed]

\* seed 40, the first FRESH one, was scored
TierMappingWitness ==
    \E t \in Threads :
        /\ Returned(t, {"hash"})
        /\ th[t].seed = 40
        /\ th[t].result.prediction = "fresh"

\* (1 - freshProb) * 100 of the documented tier formula, as the float it is
TierRawScore == [seed \in 0..99 |-> FMul(FSub(One, TierFreshProb[seed]), Hundred)]

TierRoundedScore == [seed \in 0..99 |-> Max(0, Min(100, FRoundInt(TierRawScore[seed])))]

\* C5 as stated: the damage score of the hash scorer is (1 - freshProb) * 100
\* rounded to the nearest integer and clamped to [0, 100].
HashScoreRounds ==
    \A t \in Threads :
        Returned(t, {"hash"}) => th[t].result.damage_score = TierRoundedScore[th[t].seed]

\* C5 amended: the damage score of the hash scorer is the float
\* (1 - freshProb) * 100 truncated toward zero, the integer d in [0, 100] with
\* d <= (1 - freshProb) * 100 < d + 1.
HashScoreTruncates ==
    \A t \in Threads :
        Returned(t, {"hash"}) =>
            /\ th[t].result.damage_score \in 0..100
            /\ FLe(FInt(th[t].result.damage_score), TierRawScore[th[t].seed])
            /\ FLt(TierRawScore[th[t].seed], FInt(th[t].result.damage_score + 1))

\* seed 1 was scored 94, where rounding gives 95
HashScoreTruncatesWitness ==
    \E t \in Threads :
        /\ Returned(t, {"hash"})
        /\ th[t].seed = 1
        /\ th[t].result.damage_score = 94
        /\ TierRoundedScore[1] = 95

\* C6: the verdict of the probability scorers is FRESH exactly when
\* freshProb > rottenProb, so a tie gives ROTTEN.
VerdictFreshIffGreater ==
    \A t \in Threads :
        Returned(t, ProbabilityOps) =>
            (th[t].result.prediction = "fresh" <=> FGt(th[t].fresh_prob, th[t].rotten_prob))
            /\ th[t].result.prediction \in {"fresh", "rotten"}

\* a tie of two nonzero probabilities was given ROTTEN
VerdictTieWitness ==
    \E t \in Threads :
        /\ Returned(t, ProbabilityOps)
        /\ th[t].fresh_prob = th[t].rotten_prob
        /\ th[t].fresh_prob = FDivInt(1, 2)
        /\ th[t].result.prediction = "rotten"

\* round((1 - freshProb) * 100) or round(rottenProb * 100), clamped
RoundedScore ==
    [p \in ModelPairs |->
        IF FGt(p[1], p[2]) THEN Max(0, Min(100, FRoundInt(FMul(FSub(One, p[1]), Hundred))))
        ELSE IF IsNaN(p[2]) THEN ValueError
        ELSE Max(0, Min(100, FRoundInt(FMul(p[2], Hundred))))]

\* C7: the damage score of the probability scorers is round((1 - freshProb) *
\* 100) for FRESH and round(rottenProb * 100) for ROTTEN, clamped to [0, 100];
\* (0.8, 0.2) gives 20 and (0.3, 0.7) gives 70.
ProbabilityScoreRounds ==
    \A t \in Threads :
        Returned(t, ProbabilityOps) =>
            th[t].result.damage_score = RoundedScore[<<th[t].fresh_prob, th[t].rotten_prob>>]

WinningProb(t) ==
    IF th[t].result.prediction = "fresh" THEN th[t].fresh_prob ELSE th[t].rotten_prob

\* 100 times each probability of the model's pairs
Percent == [x \in {p[1] : p \in ModelPairs} \cup {p[2] : p \in ModelPairs} |-> FMul(x, Hundred)]

PercentReported == [x \in DOMAIN Percent |-> FRound2(Percent[x])]

\* C8: the confidence of the probability scorers is 100 times the probability
\* of the class the verdict names (reported to two decimals), never that of
\* the other class.
ConfidenceOfWinner ==
    \A t \in Threads :
        Returned(t, ProbabilityOps) =>
            /\ th[t].confidence = Percent[WinningProb(t)]
            /\ th[t].result.confidence = PercentReported[WinningProb(t)]

\* (0.3, 0.7) was given ROTTEN with confidence 70.0
ConfidenceOfWinnerWitness ==
    \E t \in Threads :
        /\ Returned(t, ProbabilityOps)
        /\ th[t].fresh_prob = FDivInt(3, 10)
        /\ th[t].rotten_prob = FDivInt(7, 10)
        /\ th[t].result.prediction = "rotten"
        /\ th[t].result.confidence = FInt(70)

\* C9: (1.0, 0.0) gives damage score 0 and FRESH; (0.0, 1.0) gives damage
\* score 100 and ROTTEN.
ExtremeBoundaries ==
    \A t \in Threads :
        Returned(t, ProbabilityOps) =>
            /\ (th[t].fresh_prob = One /\ th[t].rotten_prob = FZero) =>
                  (th[t].result.damage_score = 0 /\ th[t].result.prediction = "fresh")
            /\ (th[t].fresh_prob = FZero /\ th[t].rotten_prob = One) =>
                  (th[t].result.damage_score = 100 /\ th[t].result.prediction = "rotten")

\* the image scorer returned its result for (0.0, 1.0)
ExtremeBoundariesWitness ==
    \E t \in Threads :
        /\ Returned(t, {"data"})
        /\ th[t].fresh_prob = FZero /\ th[t].rotten_prob = One
        /\ th[t].result.damage_score = 100

EightHexDigits(image_hash) ==
    Len(image_hash) >= 8 /\ \A i \in 1..8 : IsHexDigit(image_hash[i])

\* C10: the hash scorer fails, and returns no score, for every hash that does
\* not have 8 hexadecimal characters in its first 8 positions.
InvalidHashRejected ==
    \A t \in Threads :
        Returned(t, {"hash"}) => EightHexDigits(th[t].arg)

(***************************************************************************)
(* The HTTP responses.                                                     *)
(***************************************************************************)
\* thread t has answered a request on one of the endpoints
Responded(t, endpoints) == http[t].pc = "responded" /\ http[t].endpoint \in endpoints

\* the answer of thread t is to a request whose hash reached the scorer
AnsweredHash(t) ==
    /\ Responded(t, {"/predict_hash", "/predict"})
    /\ http[t].called
    /\ th[t].op = "hash"

HasError(body) == "error" \in DOMAIN body

\* an error string and damage_score -1
ErrorShape(body) ==
    /\ HasError(body)
    /\ "damage_score" \in DOMAIN body
    /\ body.damage_score = 0 - 1

\* C11: a hash request (/predict_hash, or /predict with image_hash) whose
\* hash is malformed (fewer than 8 characters, or a non-hex character among
\* the first 8) is answered with status 400, an error message and
\* damage_score -1.
MalformedHashAnswered400 ==
    \A t \in Threads :
        AnsweredHash(t) /\ ~EightHexDigits(th[t].arg) =>
            http[t].status = 400 /\ ErrorShape(http[t].body)

ScoringEndpoints == {"/predict", "/predict_base64", "/predict_hash", "/predict_simple", "url/predict"}

\* the request of thread t was answered with a failure status
Failed(t) == Responded(t, ScoringEndpoints) /\ http[t].status # 200

\* C12: every failure answer of every scoring endpoint of both servers has a
\* body with an error string and damage_score -1.
FailureBodyHasErrorAndMinusOne ==
    \A t \in Threads : Failed(t) => ErrorShape(http[t].body)

\* the scorer call made for the answered request of thread t failed in a
\* collaborator: the image could not be fetched or decoded, or the model's
\* prediction failed
UpstreamFailed(t) ==
    /\ Responded(t, {"/predict", "/predict_base64", "url/predict"})
    /\ http[t].called
    /\ th[t].pc = "raised"
    /\ th[t].op \in ProbabilityOps

\* C13: a prediction request during which a collaborator fails (image
\* download or decoding, the model's prediction) is answered with status 500,
\* an error string and damage_score -1, and the handler is free for the next
\* request.
UpstreamFailureAnswered500 ==
    \A t \in Threads :
        UpstreamFailed(t) =>
            /\ http[t].status = 500
            /\ ErrorShape(http[t].body)
            /\ Free(t)

\* a request is served with a score right after one that failed upstream
UpstreamFailureWitness ==
    /\ Responded(1, {"url/predict"})
    /\ http[1].called /\ http[1].status = 200
    /\ http[1].prev = 500 /\ http[1].prev_called
    /\ request_count[UrlServer] = 2

(***************************************************************************)
(* The request counter.                                                    *)
(***************************************************************************)
\* the server whose counter a thread at pc is about to write
StoreServer(pc) == IF pc = "url_store" THEN UrlServer ELSE HashServer

\* the scorer calls of a server that have read the counter and not yet
\* written it
Pending(srv) ==
    Cardinality({t \in Threads :
                    /\ th[t].pc \in {"hash_store", "data_store", "url_store"}
                    /\ StoreServer(th[t].pc) = srv})

\* C14: with the scoring calls made one after another, the request counter of
\* each server starts at 0, equals the number of scoring calls made on that
\* server once each call has incremented it, failed calls included, and
\* never decreases.
SequentialCounterExact ==
    /\ \A srv \in Servers : request_count[srv] = 0
    /\ [](\A srv \in Servers : request_count[srv] + Pending(srv) = calls[srv])
    /\ [][\A srv \in Servers : request_count'[srv] >= request_count[srv]]_vars

\* MaxCalls calls on the hash server, some returned a score, the last failed
SequentialCounterWitness ==
    /\ request_count[HashServer] = MaxCalls
    /\ calls[HashServer] = MaxCalls
    /\ th[1].pc = "raised"
    /\ first_score # <<>>

\* C15: with the scoring calls executed by concurrently running handlers, in
\* every interleaving the request counter is, once every call begun has
\* incremented it, exactly the number of calls higher than at the start: no
\* increment is lost.
ConcurrentCounterExact ==
    Pending(HashServer) = 0 => request_count[HashServer] = calls[HashServer]

\* C16: no step of a scoring call changes process-wide state other than the
\* request counter: the global pseudo-random generator is left as it was.
ScoringLeavesGenerator == [][np_random_seed' = np_random_seed]_vars

\* what a scoring call of thread t was given: the hash, or the image and the
\* output of the classifier for it
InputOf(t) ==
    IF th[t].op = "hash" THEN <<th[t].arg>>
    ELSE <<th[t].arg, th[t].fresh_prob, th[t].rotten_prob>>

Prefix8(image_hash) == SubSeq(image_hash, 1, 8)

\* C18: two valid hashes that agree on their first 8 hex characters get the
\* same damage score, verdict and confidence from the hash scorer, whatever
\* follows those 8 characters.
OnlyFirstEightSignificant ==
    \A t1, t2 \in Threads :
        /\ Returned(t1, {"hash"}) /\ Returned(t2, {"hash"})
        /\ EightHexDigits(th[t1].arg) /\ EightHexDigits(th[t2].arg)
        /\ Prefix8(th[t1].arg) = Prefix8(th[t2].arg)
        => ScoreOf(th[t1].result) = ScoreOf(th[t2].result)

\* a hash of 8 characters and a longer one that starts with it have both
\* been scored
OnlyFirstEightWitness ==
    \E t1, t2 \in Threads :
        /\ Returned(t1, {"hash"}) /\ Returned(t2, {"hash"})
        /\ Len(th[t1].arg) = 8 /\ Len(th[t2].arg) > 8
        /\ Prefix8(th[t1].arg) = Prefix8(th[t2].arg)

\* the documented damage score of the simple endpoint for a seed
SimpleTierScore(seed) ==
    CASE seed < 25 -> 65 + (seed % 25)
      [] seed >= 25 /\ seed < 75 -> 20 + (seed % 30)
      [] seed >= 75 -> seed % 20

\* C19: for every clock value, with seed = seconds since the epoch mod 100,
\* the simple endpoint returns 65 + (seed mod 25) when seed < 25,
\* 20 + (seed mod 30) when 25 <= seed < 75, and seed mod 20 when seed >= 75.
SimpleTiers ==
    \A t \in Threads :
        Returned(t, {"simple"}) =>
            /\ th[t].seed = th[t].arg % 100
            /\ th[t].result.damage_score = SimpleTierScore(th[t].arg % 100)
            /\ Responded(t, {"/predict_simple"}) /\ http[t].status = 200 =>
                  http[t].body.damage_score = SimpleTierScore(th[t].arg % 100)

\* the endpoint has answered at a clock value whose seed is 25, the first of
\* the middle tier
SimpleTiersWitness ==
    /\ Returned(1, {"simple"})
    /\ Responded(1, {"/predict_simple"})
    /\ th[1].arg % 100 = 25
    /\ http[1].body.damage_score = 45

\* the request carries no input: no image_url on /predict of the URL server,
\* no or empty hash on /predict_hash, no JSON or neither image_base64 nor
\* image_hash on /predict of the hash server
NoInput(endpoint, req) ==
    CASE endpoint = "url/predict" ->
            \/ req.method = "POST" /\ ~req.json
            \/ ~req.image_url.given
            \/ req.image_url.value = ""
      [] endpoint = "/predict_hash" ->
            \/ req.method = "POST" /\ ~req.json
            \/ ~req.hash.given
            \/ req.hash.value = <<>>
      [] endpoint = "/predict" ->
            ~req.json \/ (~req.image_base64.given /\ ~req.image_hash.given)
      [] OTHER -> FALSE

\* thread t takes up a request in this step
TakesRequest(t) ==
    /\ http'[t] # http[t]
    /\ http[t].pc # "handling"

\* C20: a prediction request that carries no input is answered with status
\* 400, an error string and damage_score -1, without a call of the scorer:
\* the request counter is left unchanged.
NoInputAnswered400 ==
    [][\A t \in Threads :
          TakesRequest(t) /\ NoInput(http'[t].endpoint, http'[t].req) =>
              /\ http'[t].pc = "responded"
              /\ http'[t].status = 400
              /\ ErrorShape(http'[t].body)
              /\ ~http'[t].called
              /\ calls' = calls
              /\ request_count' = request_count]_vars

(***************************************************************************)
(* Verdict, score and confidence of the hash scorer.                       *)
(***************************************************************************)
Half == FDivInt(1, 2)
Fifty == FInt(50)

\* C21: for every seed, the hash scorer returns the verdict ROTTEN if and
\* only if the damage score is at least 50, which is if and only if
\* freshProb < 0.5, and its confidence max(freshProb, 1 - freshProb) * 100 is
\* at least 50.
HashVerdictAgreesWithScore ==
    \A t \in Threads :
        Returned(t, {"hash"}) =>
            /\ th[t].result.prediction \in {"rotten", "fresh"}
            /\ th[t].result.prediction = "rotten" <=> th[t].result.damage_score >= 50
            /\ th[t].result.prediction = "rotten" <=> FLt(th[t].fresh_prob, Half)
            /\ FGe(th[t].confidence, Fifty)
            /\ FGe(th[t].result.confidence, Fifty)

\* seed 39, the last ROTTEN one, was scored: damage 60
HashVerdictAgreesWitness ==
    \E t \in Threads :
        /\ Returned(t, {"hash"})
        /\ th[t].seed = 39
        /\ th[t].result.prediction = "rotten"
        /\ th[t].result.damage_score = 60

\* C22: no two results of the hash or image scorer carry the same
\* request_count, in every interleaving of concurrently running handlers.
UniqueRequestIds ==
    \A t1, t2 \in Threads :
        /\ t1 # t2
        /\ Returned(t1, {"hash", "data"}) /\ Returned(t2, {"hash", "data"})
        => th[t1].result.request_count # th[t2].result.request_count

(***************************************************************************)
(* The fallback model.                                                     *)
(***************************************************************************)
\* thread t is past the prediction of the fallback model for an image
FallbackPredicted(t) ==
    /\ th[t].pc \in {"data_score", "done"}
    /\ th[t].op = "data"
    /\ th[t].arg \in FallbackImages

\* the image scorer has returned or failed for one of the images
FallbackEnded(t, images) ==
    /\ th[t].pc \in {"done", "raised"}
    /\ th[t].op = "data"
    /\ th[t].arg \in images

\* the call of thread t returned this verdict and a damage score in scores
FallbackReturned(t, prediction, scores) ==
    /\ th[t].pc = "done"
    /\ th[t].result.prediction = prediction
    /\ th[t].result.damage_score \in scores

DarkImages == {"mean_0.0", "mean_0.15", "mean_0.29"}
BrightImages == {"mean_0.71", "mean_0.85", "mean_1.0"}

\* C23: whatever the jitter, the fallback model returns rottenProb =
\* 1 - freshProb; an image of mean brightness below 0.3 gets the verdict
\* ROTTEN and a damage score in [50, 80], one of mean brightness above 0.7
\* the verdict FRESH and a damage score in [0, 30]; neither fails.
FallbackVerdicts ==
    \A t \in Threads :
        /\ (FallbackPredicted(t) => th[t].rotten_prob = FSub(One, th[t].fresh_prob))
        /\ (FallbackEnded(t, DarkImages) => FallbackReturned(t, "rotten", 50..80))
        /\ (FallbackEnded(t, BrightImages) => FallbackReturned(t, "fresh", 0..30))

\* a dark image scored with the largest jitter: freshProb just below 0.5,
\* damage score 50
FallbackVerdictsWitness ==
    /\ Returned(1, {"data"})
    /\ th[1].arg = "mean_0.29"
    /\ FGt(th[1].fresh_prob, FDivInt(49, 100))
    /\ th[1].result.damage_score = 50
    /\ th[1].result.prediction = "rotten"

(***************************************************************************)
(* The temperature sensor endpoint.                                        *)
(***************************************************************************)
\* C24: every GET /sensor request is answered successfully, with a
\* temperature in [-5.0, 35.0], a timestamp, sensor_id 'TEMP_001' and status
\* 'active'; none ends in an error.
SensorAlwaysSucceeds ==
    \A t \in Threads :
        Responded(t, {"/sensor"}) =>
            /\ http[t].status = 200
            /\ DOMAIN http[t].body = {"temperature", "timestamp", "sensor_id", "status"}
            /\ FGe(http[t].body.temperature, FInt(0 - 5))
            /\ FLe(http[t].body.temperature, FInt(35))
            /\ http[t].body.sensor_id = "TEMP_001"
            /\ http[t].body.status = "active"
====
